---- MODULE Spec2Model ----
(***************************************************************************)
(* Tropimon statistics service (tropimon_service.py): the log loader that  *)
(* rebuilds the players / species / captures tables from the legacy        *)
(* pokemon_logs.json and the per-player POKEMON_CATCH.json files, and the  *)
(* read-only aggregation helpers served by the JSON routes.                *)
(*                                                                         *)
(* Species identifiers are sequences of one-character strings so that      *)
(* letter case, surrounding blanks and the "cobblemon:" prefix are         *)
(* visible to the model.  Player identifiers and labels are strings.       *)
(***************************************************************************)
EXTENDS Integers, Sequences, FiniteSets, TLC

VARIABLES
    oldFile,        \* <log_folder>/pokemon_logs.json
    folders,        \* the sub-folders of log_folder, each with its POKEMON_CATCH.json
    pc,             \* position of the loader: "idle", "reset", "folders"
    todo,           \* folder names os.listdir still has to yield
    session,        \* objects added to the loader's session, not yet committed
    player_cache,   \* keys of the loader's player_cache dict
    species_cache,  \* keys of the loader's species_cache dict
    committed,      \* the committed content of the database, what any other session reads
    lastBuilt,      \* history: the source files read by the rebuild that committed the
                    \* present content (no files once the tables are emptied)
    emptied,        \* history: the last reset deleted rows and no rebuild committed since
    ended,          \* history: how the last rebuild ended: "none", "committed", "raised"
    sameRuns,       \* history: rebuilds ended since the source files last changed
    summaries,      \* history: summary() after the last two rebuilds, newest first
    resp            \* the value returned by the last route called

vars == <<oldFile, folders, pc, todo, session, player_cache, species_cache,
          committed, lastBuilt, emptied, ended, sameRuns, summaries, resp>>

(***************************************************************************)
(* Bounds.                                                                 *)
(***************************************************************************)
\* Capture records written to the log files, all files together.
MaxRecords == 3

(***************************************************************************)
(* Strings.                                                                *)
(***************************************************************************)
\* The namespace prefix of a species key.
NS == <<"c","o","b","b","l","e","m","o","n",":">>

\* Legendary species
LEGENDARIES ==
    { NS \o <<"a","r","t","i","c","u","n","o">>,
      NS \o <<"z","a","p","t","o","s">>,
      NS \o <<"m","o","l","t","r","e","s">>,
      NS \o <<"s","u","i","c","u","n","e">>,
      NS \o <<"e","n","t","e","i">>,
      NS \o <<"r","a","i","k","o","u">>,
      NS \o <<"r","e","g","i","g","i","g","a","s">>,
      NS \o <<"r","a","y","q","u","a","z","a">> }

\* The mythical set with a species of the legendary set in it.
MythicalsWithArticuno ==
    { NS \o <<"m","e","w">>, NS \o <<"a","r","t","i","c","u","n","o">> }

\* Mythical species
MYTHICALS ==
    { NS \o <<"m","e","w">>,
      NS \o <<"c","e","l","e","b","i">>,
      NS \o <<"j","i","r","a","c","h","i">>,
      NS \o <<"m","a","n","a","p","h","y">>,
      NS \o <<"s","h","a","y","m","i","n">>,
      NS \o <<"a","r","c","e","u","s">>,
      NS \o <<"v","i","c","t","i","n","i">>,
      NS \o <<"m","a","r","s","h","a","d","o","w">> }


(***************************************************************************)
(* The tables.  players maps a Player.id to its last_seen_timestamp,       *)
(* species maps a Species.id to its two flags, captures is the captures    *)
(* table in id order (Capture.id is the position).                         *)
(***************************************************************************)
NoRows == [k \in {} |-> 0]

EmptyStore == [players |-> NoRows, species |-> NoRows, captures |-> <<>>]

\* reset_database without its first DELETE: the captures rows stay.
reset_database_keeps_captures(db) == [db EXCEPT !.players = NoRows, !.species = NoRows]

\* reset_database: the three DELETEs and their commit.
reset_database(db) == [players |-> NoRows, species |-> NoRows, captures |-> <<>>]

\* A commit that writes the captures rows and loses the players and species rows.
InsertedCapturesOnly(db, pending) ==
    [db EXCEPT !.captures = db.captures \o pending.captures]

\* The INSERTs of a commit: the session's pending rows added to the tables, the new
\* captures taking the ids that follow.
Inserted(db, pending) ==
    [players |-> pending.players @@ db.players,
     species |-> pending.species @@ db.species,
     captures |-> db.captures \o pending.captures]

\* An INSERT of a primary key the table holds already fails (IntegrityError).
KeyConflict(db, pending) ==
    \/ DOMAIN pending.players \cap DOMAIN db.players # {}
    \/ DOMAIN pending.species \cap DOMAIN db.species # {}

Player(id, last_seen_timestamp) == id :> last_seen_timestamp

Species(id, is_legendary, is_mythical) ==
    id :> [is_legendary |-> is_legendary, is_mythical |-> is_mythical]

Capture(player, species, timestamp, is_shiny) ==
    [player_id |-> player, species_id |-> species,
     timestamp |-> timestamp, is_shiny |-> is_shiny]

(***************************************************************************)
(* The anonymizer.  Sha256Hex4 is hashlib.sha256(uuid.encode())            *)
(* .hexdigest()[:4].upper() on the identifiers the model uses.             *)
(***************************************************************************)
Sha256Hex4(uuid) ==
    CASE uuid = "u1" -> "BB82"
      [] uuid = "u2" -> "6CA2"
      [] uuid = "Player #9485" -> "9485"

\* A label made of the identifier itself, not of its digest.
anonymize_unhashed(uuid) == "Player #" \o uuid

anonymize_uuid(uuid) == "Player #" \o Sha256Hex4(uuid)

(***************************************************************************)
(* The loader.  L is the loader's working state: the session's pending     *)
(* objects and the two caches.                                             *)
(***************************************************************************)
NewLoad == [session |-> EmptyStore, player_cache |-> {}, species_cache |-> {}]

\* Python's "x or 0" on an integer.
Or0(x) == IF x = 0 THEN 0 ELSE x

\* The bump with its comparison the wrong way round.
LastSeenAfterReversed(last_seen_timestamp, ts) ==
    IF ts < Or0(last_seen_timestamp) THEN ts ELSE last_seen_timestamp

\* if ts > (player.last_seen_timestamp or 0): player.last_seen_timestamp = ts
LastSeenAfter(last_seen_timestamp, ts) ==
    IF ts > Or0(last_seen_timestamp) THEN ts ELSE last_seen_timestamp

\* The body of the loop over one POKEMON_CATCH.json.  A missing player is "",
\* a missing Species is the empty string.
AddNewEntry(L, entry) ==
    LET player_uuid == entry.player
        species_id == entry.Species
        ts == entry.timestamp
        is_shiny == entry.Shiny
    IN  IF player_uuid = "" \/ species_id = <<>>
        THEN L
        ELSE LET players ==
                     IF player_uuid \notin L.player_cache
                     THEN Player(player_uuid, ts) @@ L.session.players
                     ELSE [L.session.players EXCEPT
                              ![player_uuid] = LastSeenAfter(@, ts)]
                 species ==
                     IF species_id \notin L.species_cache
                     THEN Species(species_id, species_id \in LEGENDARIES,
                                  species_id \in MYTHICALS) @@ L.session.species
                     ELSE L.session.species
             IN  [session |->
                      [players |-> players,
                       species |-> species,
                       captures |-> Append(L.session.captures,
                                           Capture(player_uuid, species_id, ts, is_shiny))],
                  player_cache |-> L.player_cache \cup {player_uuid},
                  species_cache |-> L.species_cache \cup {species_id}]

RECURSIVE AddNewEntries(_, _)
AddNewEntries(L, logs) ==
    IF logs = <<>> THEN L
    ELSE AddNewEntries(AddNewEntry(L, Head(logs)), Tail(logs))

\* The body of the inner loop of load_old_json_file.
AddOldEntry(L, player_uuid, entry) ==
    LET species_id == entry.Species
        ts == entry.captureTimestamp
        is_shiny == entry.Shiny
    IN  IF species_id = <<>> \/ player_uuid = ""
        THEN L
        ELSE LET players ==
                     IF player_uuid \notin L.player_cache
                     THEN Player(player_uuid, ts) @@ L.session.players
                     ELSE [L.session.players EXCEPT
                              ![player_uuid] = LastSeenAfter(@, ts)]
                 species ==
                     IF species_id \notin L.species_cache
                     THEN Species(species_id, species_id \in LEGENDARIES,
                                  species_id \in MYTHICALS) @@ L.session.species
                     ELSE L.session.species
             IN  [session |->
                      [players |-> players,
                       species |-> species,
                       captures |-> Append(L.session.captures,
                                           Capture(player_uuid, species_id, ts, is_shiny))],
                  player_cache |-> L.player_cache \cup {player_uuid},
                  species_cache |-> L.species_cache \cup {species_id}]

RECURSIVE AddOldEntries(_, _, _)
AddOldEntries(L, player_uuid, captures) ==
    IF captures = <<>> THEN L
    ELSE AddOldEntries(AddOldEntry(L, player_uuid, Head(captures)),
                       player_uuid, Tail(captures))

\* for player_uuid, captures in data.items(): data is the file's object in key order.
RECURSIVE AddOldData(_, _)
AddOldData(L, data) ==
    IF data = <<>> THEN L
    ELSE AddOldData(AddOldEntries(L, Head(data).uuid, Head(data).captures), Tail(data))

(***************************************************************************)
(* The aggregation helpers.  db is the content a session reads.  A query   *)
(* with ORDER BY count DESC leaves the order of equal counts to the        *)
(* database, so a helper is the set of the lists it may return.            *)
(***************************************************************************)
Min(a, b) == IF a < b THEN a ELSE b

\* The ids of the captures rows, all of them and by filter.  The species filters
\* JOIN species ON captures.species_id = species.id.
AllCaptures(db) == DOMAIN db.captures

ShinyCaptures(db) == {i \in DOMAIN db.captures : db.captures[i].is_shiny = TRUE}

LegendaryCaptures(db) ==
    {i \in DOMAIN db.captures :
        /\ db.captures[i].species_id \in DOMAIN db.species
        /\ db.species[db.captures[i].species_id].is_legendary = TRUE}

MythicalCaptures(db) ==
    {i \in DOMAIN db.captures :
        /\ db.captures[i].species_id \in DOMAIN db.species
        /\ db.species[db.captures[i].species_id].is_mythical = TRUE}

OtherCaptures(db) ==
    {i \in DOMAIN db.captures :
        /\ db.captures[i].species_id \in DOMAIN db.species
        /\ db.species[db.captures[i].species_id].is_legendary = FALSE
        /\ db.species[db.captures[i].species_id].is_mythical = FALSE}

SpeciesCaptures(db, species_id) ==
    {i \in DOMAIN db.captures : db.captures[i].species_id = species_id}

\* GROUP BY column, count(Capture.id), over the rows ids.
GroupCount(db, ids, column) ==
    [k \in {db.captures[i][column] : i \in ids} |->
        Cardinality({i \in ids : db.captures[i][column] = k})]

\* The orders in which the elements of S can be listed.
Perms(S) ==
    {p \in [1..Cardinality(S) -> S] : \A i, j \in DOMAIN p : i # j => p[i] # p[j]}

\* LIMIT n of SQLite: n rows at most, and no bound at all when n is negative.
Limit(n, rows) == IF n < 0 THEN rows ELSE SubSeq(rows, 1, Min(n, Len(rows)))

\* The same with ORDER BY count ASC.
OrderByCountAsc(g, limit) ==
    {Limit(limit, [i \in 1..Len(p) |-> <<p[i], g[p[i]]>>]) :
        p \in {q \in Perms(DOMAIN g) :
                  \A i, j \in DOMAIN q : i < j => g[q[i]] <= g[q[j]]}}

\* ORDER BY count DESC LIMIT limit over the groups g: every list the database may give.
OrderByCountDesc(g, limit) ==
    {Limit(limit, [i \in 1..Len(p) |-> <<p[i], g[p[i]]>>]) :
        p \in {q \in Perms(DOMAIN g) :
                  \A i, j \in DOMAIN q : i < j => g[q[i]] >= g[q[j]]}}

PlayerRows(q) == [i \in DOMAIN q |-> [player |-> anonymize_uuid(q[i][1]), count |-> q[i][2]]]

SpeciesRows(q) == [i \in DOMAIN q |-> [species |-> q[i][1], count |-> q[i][2]]]

\* The rows each top query yields, before they are turned into the returned list.
q_top_captures(db, limit) ==
    OrderByCountDesc(GroupCount(db, AllCaptures(db), "player_id"), limit)

q_top_shiny(db, limit) ==
    OrderByCountDesc(GroupCount(db, ShinyCaptures(db), "player_id"), limit)

q_top_legendaries(db, limit) ==
    OrderByCountDesc(GroupCount(db, LegendaryCaptures(db), "player_id"), limit)

q_top_mythicals(db, limit) ==
    OrderByCountDesc(GroupCount(db, MythicalCaptures(db), "player_id"), limit)

q_top_species(db, limit) ==
    OrderByCountDesc(GroupCount(db, OtherCaptures(db), "species_id"), limit)

q_top_shiny_species(db, limit) ==
    OrderByCountDesc(GroupCount(db, ShinyCaptures(db), "species_id"), limit)

api_top_captures(db, limit) == {PlayerRows(q) : q \in q_top_captures(db, limit)}

api_top_shiny(db, limit) == {PlayerRows(q) : q \in q_top_shiny(db, limit)}

api_top_legendaries(db, limit) == {PlayerRows(q) : q \in q_top_legendaries(db, limit)}

api_top_mythicals(db, limit) == {PlayerRows(q) : q \in q_top_mythicals(db, limit)}

api_top_species(db, limit) == {SpeciesRows(q) : q \in q_top_species(db, limit)}

api_top_shiny_species(db, limit) == {SpeciesRows(q) : q \in q_top_shiny_species(db, limit)}

api_summary(db) ==
    [total_captures |-> Cardinality(AllCaptures(db)),
     total_shiny |-> Cardinality(ShinyCaptures(db)),
     total_legendaries |-> Cardinality(LegendaryCaptures(db)),
     total_mythicals |-> Cardinality(MythicalCaptures(db))]

\* The fixed LIMIT of the top_players query of api_species_detail.
DetailLimit == 10

q_species_detail(db, species_id) ==
    OrderByCountDesc(GroupCount(db, SpeciesCaptures(db, species_id), "player_id"),
                     DetailLimit)

\* The value api_species_detail returns when its top_players query gives the rows q.
SpeciesDetail(db, species_id, q) ==
    [species |-> species_id,
     total |-> Cardinality(SpeciesCaptures(db, species_id)),
     shiny |-> Cardinality(SpeciesCaptures(db, species_id) \cap ShinyCaptures(db)),
     top_players |-> PlayerRows(q)]

api_species_detail(db, species_id) ==
    {SpeciesDetail(db, species_id, q) : q \in q_species_detail(db, species_id)}

(***************************************************************************)
(* The source files.  oldFile.state is "absent" (no pokemon_logs.json),    *)
(* "unreadable" (open or json.load raises), "badshape" (JSON that is not   *)
(* an object of lists of objects) or "ok"; data lists the keys of the      *)
(* object in file order.  A folder's state is "nofile" (a folder without   *)
(* POKEMON_CATCH.json), "unreadable", "badshape" (JSON that is not a list  *)
(* of objects) or "ok".                                                    *)
(***************************************************************************)
NoOldFile == [state |-> "absent", data |-> <<>>]

NoFiles == [oldFile |-> NoOldFile, folders |-> NoRows]

Sources == [oldFile |-> oldFile, folders |-> folders]

RECURSIVE OldRecords(_)
OldRecords(data) ==
    IF data = <<>> THEN 0 ELSE Len(Head(data).captures) + OldRecords(Tail(data))

RECURSIVE NewRecords(_, _)
NewRecords(fs, names) ==
    IF names = {} THEN 0
    ELSE LET f == CHOOSE x \in names : TRUE
         IN  Len(fs[f].logs) + NewRecords(fs, names \ {f})

NumRecords == OldRecords(oldFile.data) + NewRecords(folders, DOMAIN folders)

\* No route has answered since the files or the database last changed.
NoResp == [route |-> "none"]

Init ==
    /\ oldFile = NoOldFile
    /\ folders = NoRows
    /\ pc = "idle"
    /\ todo = <<>>
    /\ session = EmptyStore
    /\ player_cache = {}
    /\ species_cache = {}
    /\ committed = EmptyStore
    /\ lastBuilt = NoFiles
    /\ emptied = FALSE
    /\ ended = "none"
    /\ sameRuns = 0
    /\ summaries = <<>>
    /\ resp = NoResp

\* The source files changed: what was observed of earlier rebuilds is of other files.
SourcesChanged ==
    /\ sameRuns' = 0
    /\ summaries' = <<>>
    /\ ended' = "none"
    /\ resp' = NoResp
    /\ UNCHANGED <<pc, todo, session, player_cache, species_cache, committed,
                   lastBuilt, emptied>>

\* The game server logs a capture of player uuid in the legacy file.
WriteOldEntry(uuid, entry) ==
    /\ pc = "idle"
    /\ NumRecords < MaxRecords
    /\ oldFile.state \in {"absent", "ok"}
    /\ oldFile' =
          [state |-> "ok",
           data |->
              IF \E i \in DOMAIN oldFile.data : oldFile.data[i].uuid = uuid
              THEN [i \in DOMAIN oldFile.data |->
                       IF oldFile.data[i].uuid = uuid
                       THEN [oldFile.data[i] EXCEPT !.captures = Append(@, entry)]
                       ELSE oldFile.data[i]]
              ELSE Append(oldFile.data, [uuid |-> uuid, captures |-> <<entry>>])]
    /\ UNCHANGED folders
    /\ SourcesChanged

\* The game server logs a capture in <folder>/POKEMON_CATCH.json.
WriteNewEntry(folder, entry) ==
    /\ pc = "idle"
    /\ NumRecords < MaxRecords
    /\ folder \in DOMAIN folders => folders[folder].state \in {"nofile", "ok"}
    /\ folders' =
          (folder :> [state |-> "ok",
                      logs |-> IF folder \in DOMAIN folders
                               THEN Append(folders[folder].logs, entry)
                               ELSE <<entry>>]) @@ folders
    /\ UNCHANGED oldFile
    /\ SourcesChanged

\* pokemon_logs.json is replaced by a file the loader cannot read as it expects.
DamageOld(state) ==
    /\ pc = "idle"
    /\ oldFile.state = "ok"
    /\ oldFile' = [oldFile EXCEPT !.state = state]
    /\ UNCHANGED folders
    /\ SourcesChanged

\* A folder is made without a POKEMON_CATCH.json, or its POKEMON_CATCH.json is
\* replaced by a file the loader cannot read as it expects.
DamageFolder(folder, state) ==
    /\ pc = "idle"
    /\ IF folder \in DOMAIN folders
       THEN folders[folder].state = "ok" /\ state # "nofile"
       ELSE state = "nofile"
    /\ folders' = (folder :> [state |-> state,
                              logs |-> IF folder \in DOMAIN folders
                                       THEN folders[folder].logs ELSE <<>>]) @@ folders
    /\ UNCHANGED oldFile
    /\ SourcesChanged

(***************************************************************************)
(* update_database_from_logs, step by step.                                *)
(***************************************************************************)
\* What the history records when a rebuild ends with the database holding db.
RebuildEnds(how, db) ==
    /\ ended' = how
    /\ sameRuns' = Min(sameRuns + 1, 2)
    /\ summaries' = <<api_summary(db)>> \o SubSeq(summaries, 1, Min(1, Len(summaries)))

\* An exception leaves update_database_from_logs: the process ends, the session's
\* pending objects are never committed.
Raise ==
    /\ pc' = "idle"
    /\ todo' = <<>>
    /\ session' = EmptyStore
    /\ player_cache' = {}
    /\ species_cache' = {}
    /\ RebuildEnds("raised", committed)
    /\ resp' = NoResp
    /\ UNCHANGED <<oldFile, folders, committed, lastBuilt, emptied>>

\* The loader keeps the working state L and goes on.
Loaded(L) ==
    /\ session' = L.session
    /\ player_cache' = L.player_cache
    /\ species_cache' = L.species_cache

CurrentLoad ==
    [session |-> session, player_cache |-> player_cache, species_cache |-> species_cache]

\* init_db, a new session, reset_database and the two empty caches.
ResetDatabase ==
    /\ pc = "idle"
    /\ committed' = reset_database(committed)
    /\ Loaded(NewLoad)
    /\ pc' = "reset"
    /\ lastBuilt' = NoFiles
    /\ emptied' = (committed # EmptyStore)
    /\ resp' = NoResp
    /\ UNCHANGED <<oldFile, folders, todo, ended, sameRuns, summaries>>

\* load_old_json_file, then os.listdir(log_folder) in the order the file system gives.
LoadOld ==
    /\ pc = "reset"
    /\ IF oldFile.state = "badshape"
       THEN Raise
       ELSE /\ Loaded(IF oldFile.state = "ok"
                      THEN AddOldData(CurrentLoad, oldFile.data)
                      ELSE CurrentLoad)
            /\ \E order \in Perms(DOMAIN folders) : todo' = order
            /\ pc' = "folders"
            /\ resp' = NoResp
            /\ UNCHANGED <<oldFile, folders, committed, lastBuilt, emptied, ended,
                           sameRuns, summaries>>

\* One turn of the loop with a session.commit() at its end: the rows read so far are
\* committed file by file.
ProcessFolderCommitting ==
    /\ pc = "folders"
    /\ todo # <<>>
    /\ LET file == folders[Head(todo)]
           L == IF file.state = "ok"
                THEN AddNewEntries(CurrentLoad, file.logs)
                ELSE CurrentLoad
       IN  IF file.state = "badshape"
           THEN Raise
           ELSE /\ Loaded([L EXCEPT !.session = EmptyStore])
                /\ committed' = Inserted(committed,
                       [L.session EXCEPT
                           !.players = [p \in DOMAIN @ \ DOMAIN committed.players |-> @[p]],
                           !.species = [p \in DOMAIN @ \ DOMAIN committed.species |-> @[p]]])
                /\ todo' = Tail(todo)
                /\ resp' = NoResp
                /\ UNCHANGED <<oldFile, folders, pc, lastBuilt, emptied,
                               ended, sameRuns, summaries>>

\* One turn of the loop over the folders.
ProcessFolder ==
    /\ pc = "folders"
    /\ todo # <<>>
    /\ LET file == folders[Head(todo)]
       IN  IF file.state = "badshape"
           THEN Raise
           ELSE /\ Loaded(IF file.state = "ok"
                          THEN AddNewEntries(CurrentLoad, file.logs)
                          ELSE CurrentLoad)
                /\ todo' = Tail(todo)
                /\ resp' = NoResp
                /\ UNCHANGED <<oldFile, folders, pc, committed, lastBuilt, emptied,
                               ended, sameRuns, summaries>>

\* session.commit() and session.close() once the loop is over.
Commit ==
    /\ pc = "folders"
    /\ todo = <<>>
    /\ IF KeyConflict(committed, session)
       THEN Raise
       ELSE /\ committed' = Inserted(committed, session)
            /\ Loaded(NewLoad)
            /\ pc' = "idle"
            /\ lastBuilt' = Sources
            /\ emptied' = FALSE
            /\ RebuildEnds("committed", Inserted(committed, session))
            /\ resp' = NoResp
            /\ UNCHANGED <<oldFile, folders, todo>>

Rebuild == ResetDatabase \/ LoadOld \/ ProcessFolder \/ Commit

(***************************************************************************)
(* The JSON routes.  Each opens a session of its own, so it reads the      *)
(* committed content, at any moment.  resp records the route, its          *)
(* argument, the status of the response (200: the value was returned),     *)
(* the rows the query gave and the value returned.                         *)
(***************************************************************************)
Answered == UNCHANGED <<oldFile, folders, pc, todo, session, player_cache,
                        species_cache, committed, lastBuilt, emptied, ended, sameRuns,
                        summaries>>

api_get_summary ==
    /\ resp' = [route |-> "/api/summary", status |-> 200, data |-> api_summary(committed)]
    /\ Answered

api_get_top_captures(limit) ==
    /\ \E q \in q_top_captures(committed, limit) :
          resp' = [route |-> "/api/top/captures", limit |-> limit, status |-> 200,
                   rows |-> q, data |-> PlayerRows(q)]
    /\ Answered

api_get_top_shiny(limit) ==
    /\ \E q \in q_top_shiny(committed, limit) :
          resp' = [route |-> "/api/top/shiny", limit |-> limit, status |-> 200,
                   rows |-> q, data |-> PlayerRows(q)]
    /\ Answered

api_get_top_legendaries(limit) ==
    /\ \E q \in q_top_legendaries(committed, limit) :
          resp' = [route |-> "/api/top/legendaries", limit |-> limit, status |-> 200,
                   rows |-> q, data |-> PlayerRows(q)]
    /\ Answered

api_get_top_mythicals(limit) ==
    /\ \E q \in q_top_mythicals(committed, limit) :
          resp' = [route |-> "/api/top/mythicals", limit |-> limit, status |-> 200,
                   rows |-> q, data |-> PlayerRows(q)]
    /\ Answered

api_get_top_species(limit) ==
    /\ \E q \in q_top_species(committed, limit) :
          resp' = [route |-> "/api/top/species", limit |-> limit, status |-> 200,
                   rows |-> q, data |-> SpeciesRows(q)]
    /\ Answered

api_get_top_shiny_species(limit) ==
    /\ \E q \in q_top_shiny_species(committed, limit) :
          resp' = [route |-> "/api/top/shiny-species", limit |-> limit, status |-> 200,
                   rows |-> q, data |-> SpeciesRows(q)]
    /\ Answered

api_get_species_detail(species_id) ==
    /\ \E q \in q_species_detail(committed, species_id) :
          resp' = [route |-> "/api/species", species_id |-> species_id, status |-> 200,
                   rows |-> q, data |-> SpeciesDetail(committed, species_id, q)]
    /\ Answered

(***************************************************************************)
(* The inputs.                                                             *)
(***************************************************************************)
geodude == <<"g","e","o","d","u","d","e">>
Geodude == <<"G","e","o","d","u","d","e">>
GEODUDE_NS == <<"C","O","B","B","L","E","M","O","N",":","g","e","o","d","u","d","e">>
geodude_ns == NS \o geodude
mew_ns == NS \o <<"m","e","w">>
articuno_ns == NS \o <<"a","r","t","i","c","u","n","o">>
NoSpecies == <<>>

FolderNames == {"f1", "f2"}
FileDamage == {"unreadable", "badshape"}
FolderDamage == {"nofile", "unreadable", "badshape"}

\* The default of limit in the top routes, and in /api/top/species.
DefaultLimit == 10
DefaultSpeciesLimit == 50

OldEntries(S, T, H) == [Species : S, Shiny : H, captureTimestamp : T]

NewEntries(P, S, T, H) == [player : P, Species : S, Shiny : H, timestamp : T]

\* The game server logs captures of players P, species S, at times T, shiny or not
\* (H), in the legacy file and in the folders F.
Writes(P, S, T, H, F) ==
    \/ \E uuid \in P, entry \in OldEntries(S, T, H) : WriteOldEntry(uuid, entry)
    \/ \E folder \in F, entry \in NewEntries(P, S, T, H) : WriteNewEntry(folder, entry)

Damages ==
    \/ \E state \in FileDamage : DamageOld(state)
    \/ \E folder \in FolderNames, state \in FolderDamage : DamageFolder(folder, state)

Limits == {-1, 0, 1, DefaultLimit}
SpeciesLimits == {-1, 0, 1, DefaultSpeciesLimit}

\* The routes are called, one at a time, on the database as the first rebuild of the
\* present files left it (or as it was created).
QueryPoint == pc = "idle" /\ lastBuilt = Sources /\ sameRuns <= 1 /\ resp = NoResp

TopRoutes ==
    \/ \E limit \in Limits : api_get_top_captures(limit)
    \/ \E limit \in Limits : api_get_top_shiny(limit)
    \/ \E limit \in Limits : api_get_top_legendaries(limit)
    \/ \E limit \in Limits : api_get_top_mythicals(limit)
    \/ \E limit \in SpeciesLimits : api_get_top_species(limit)
    \/ \E limit \in Limits : api_get_top_shiny_species(limit)

(***************************************************************************)
(* Spec: the loader run on files that go missing, unreadable or misshapen, *)
(* with the summary route reading beside it at any moment.                 *)
(***************************************************************************)
Next ==
    \/ Writes({"u1"}, {geodude, mew_ns, NoSpecies}, {0}, {FALSE}, FolderNames)
    \/ Damages
    \/ Rebuild
    \/ api_get_summary

Spec == Init /\ [][Next]_vars

(***************************************************************************)
(* SpecTs: captures of two players at times below, at and above zero, in   *)
(* the legacy file and in a folder.                                        *)
(***************************************************************************)
NextTs ==
    \/ Writes({"u1", "u2"}, {geodude}, {-1, 0, 1}, {FALSE}, {"f1"})
    \/ Rebuild

SpecTs == Init /\ [][NextTs]_vars

(***************************************************************************)
(* SpecNorm: one species logged under two spellings in both formats, and   *)
(* the species route asked for it under these and two more spellings.      *)
(***************************************************************************)
NextNorm ==
    \/ Writes({"u1"}, {geodude, Geodude}, {0}, BOOLEAN, {"f1"})
    \/ Rebuild
    \/ /\ QueryPoint
       /\ \E species_id \in {geodude, Geodude, GEODUDE_NS, geodude_ns} :
             api_get_species_detail(species_id)

SpecNorm == Init /\ [][NextNorm]_vars

(***************************************************************************)
(* SpecQuery: captures of two players, one of them with an identifier of   *)
(* the form of a label, of two ordinary species, a legendary and a         *)
(* mythical one, some of them shiny, and every route asked about them.     *)
(***************************************************************************)
QueryPlayers == {"u1", "Player #9485"}

WritesQuery ==
    \E entry \in NewEntries(QueryPlayers, {geodude, Geodude, mew_ns, articuno_ns},
                            {0}, {FALSE})
                 \cup NewEntries(QueryPlayers, {geodude, mew_ns}, {0}, {TRUE}) :
        WriteNewEntry("f1", entry)

NextQuery ==
    \/ WritesQuery
    \/ Rebuild
    \/ QueryPoint /\ TopRoutes
    \/ QueryPoint /\ api_get_summary
    \/ /\ QueryPoint
       /\ \E species_id \in {geodude, mew_ns} : api_get_species_detail(species_id)

SpecQuery == Init /\ [][NextQuery]_vars

(***************************************************************************)
(* What the files hold, read independently of the loader: the records a    *)
(* readable file of the expected shape holds that name a player and a      *)
(* species.  A record is named by its file, its place among the keys of    *)
(* the legacy object (1 in a folder's file) and its place in the list.     *)
(***************************************************************************)
OldName == "pokemon_logs.json"

RecordKeys(src) ==
    (IF src.oldFile.state = "ok"
     THEN UNION {{<<OldName, i, j>> : j \in DOMAIN src.oldFile.data[i].captures} :
                    i \in DOMAIN src.oldFile.data}
     ELSE {})
    \cup
    UNION {IF src.folders[f].state = "ok"
           THEN {<<f, 1, j>> : j \in DOMAIN src.folders[f].logs}
           ELSE {} : f \in DOMAIN src.folders}

RowOf(src, k) ==
    IF k[1] = OldName
    THEN [player_id |-> src.oldFile.data[k[2]].uuid,
          species_id |-> src.oldFile.data[k[2]].captures[k[3]].Species,
          timestamp |-> src.oldFile.data[k[2]].captures[k[3]].captureTimestamp,
          is_shiny |-> src.oldFile.data[k[2]].captures[k[3]].Shiny]
    ELSE [player_id |-> src.folders[k[1]].logs[k[3]].player,
          species_id |-> src.folders[k[1]].logs[k[3]].Species,
          timestamp |-> src.folders[k[1]].logs[k[3]].timestamp,
          is_shiny |-> src.folders[k[1]].logs[k[3]].Shiny]

AcceptedKeys(src) ==
    {k \in RecordKeys(src) : RowOf(src, k).player_id # "" /\ RowOf(src, k).species_id # <<>>}

\* db holds one captures row for each accepted record of src and no other, and a
\* players and a species row for each player and species of these and no other.
IsRebuildOf(db, src) ==
    LET keys == AcceptedKeys(src)
        rows == {RowOf(src, k) : k \in keys}
    IN  /\ \A r \in rows \cup {db.captures[i] : i \in DOMAIN db.captures} :
              Cardinality({i \in DOMAIN db.captures : db.captures[i] = r})
                  = Cardinality({k \in keys : RowOf(src, k) = r})
        /\ DOMAIN db.players = {r.player_id : r \in rows}
        /\ DOMAIN db.species = {r.species_id : r \in rows}

\* A file of src makes the loader raise.
Misshapen(src) ==
    \/ src.oldFile.state = "badshape"
    \/ \E f \in DOMAIN src.folders : src.folders[f].state = "badshape"

\* The counts of the accepted records of src.
SummaryOf(src) ==
    LET keys == AcceptedKeys(src)
    IN  [total_captures |-> Cardinality(keys),
         total_shiny |-> Cardinality({k \in keys : RowOf(src, k).is_shiny}),
         total_legendaries |->
             Cardinality({k \in keys : RowOf(src, k).species_id \in LEGENDARIES}),
         total_mythicals |->
             Cardinality({k \in keys : RowOf(src, k).species_id \in MYTHICALS})]

ZeroSummary ==
    [total_captures |-> 0, total_shiny |-> 0, total_legendaries |-> 0,
     total_mythicals |-> 0]

(***************************************************************************)
(* The identity normalizer of the design: strip, lower-case, and prepend   *)
(* the namespace prefix unless it is there.                                *)
(***************************************************************************)
UpperCase == <<"A","B","C","D","E","F","G","H","I","J","K","L","M",
               "N","O","P","Q","R","S","T","U","V","W","X","Y","Z">>
LowerCase == <<"a","b","c","d","e","f","g","h","i","j","k","l","m",
               "n","o","p","q","r","s","t","u","v","w","x","y","z">>

lower(c) ==
    IF \E i \in DOMAIN UpperCase : UpperCase[i] = c
    THEN LowerCase[CHOOSE i \in DOMAIN UpperCase : UpperCase[i] = c]
    ELSE c

IsBlank(c) == c \in {" ", "\t", "\n", "\r"}

RECURSIVE strip(_)
strip(raw) ==
    IF raw = <<>> THEN raw
    ELSE IF IsBlank(Head(raw)) THEN strip(Tail(raw))
    ELSE IF IsBlank(raw[Len(raw)]) THEN strip(SubSeq(raw, 1, Len(raw) - 1))
    ELSE raw

normalize(raw) ==
    LET key == [i \in DOMAIN strip(raw) |-> lower(strip(raw)[i])]
    IN  IF Len(key) >= Len(NS) /\ SubSeq(key, 1, Len(NS)) = NS
        THEN key
        ELSE NS \o key

(***************************************************************************)
(* C1.  Normalization closure: the species route, asked for any spelling   *)
(* of a species, answers with the canonical key and with the counts of     *)
(* all the accepted records of the files whose species has that canonical  *)
(* key, whatever their spelling or file, and the species table holds       *)
(* canonical keys only.  The loader stores and the route compares the      *)
(* strings as written: TLC finds this violated.                            *)
(***************************************************************************)
C1_NormalizationClosure ==
    (resp.route = "/api/species" /\ ended = "committed" /\ lastBuilt = Sources) =>
      /\ \A sid \in DOMAIN committed.species : sid = normalize(sid)
      /\ LET same == {k \in AcceptedKeys(Sources) :
                         normalize(RowOf(Sources, k).species_id)
                             = normalize(resp.species_id)}
         IN  /\ resp.data.species = normalize(resp.species_id)
             /\ resp.data.total = Cardinality(same)
             /\ resp.data.shiny =
                    Cardinality({k \in same : RowOf(Sources, k).is_shiny})

(***************************************************************************)
(* C2.  Idempotent rebuild: summary() after a rebuild is the counts of     *)
(* the accepted records of the present files (all zero when the loader     *)
(* raised), whatever the database held before and in whatever order the    *)
(* folders were listed; so two rebuilds of the same files in a row give    *)
(* the same summary.                                                       *)
(***************************************************************************)
C2_IdempotentRebuild ==
    /\ Len(summaries) >= 1 =>
          summaries[1] = IF Misshapen(Sources) THEN ZeroSummary ELSE SummaryOf(Sources)
    /\ Len(summaries) = 2 => summaries[1] = summaries[2]

\* Two rebuilds in a row of two folders and a legacy file, with captures to count.
C2_Witness ==
    /\ Len(summaries) = 2
    /\ ended = "committed"
    /\ summaries[1].total_captures >= 2
    /\ summaries[1].total_mythicals >= 1
    /\ Cardinality(DOMAIN folders) = 2

(***************************************************************************)
(* C3 as stated.  The committed content is at every moment the complete    *)
(* rebuild of some files, and once a reset has deleted rows a reader is    *)
(* never shown the emptied tables while the rebuild of files with          *)
(* accepted records is still running.  TLC finds this violated.            *)
(***************************************************************************)
C3_NeverIntermediate ==
    /\ IsRebuildOf(committed, lastBuilt)
    /\ (pc # "idle" /\ emptied /\ AcceptedKeys(Sources) # {}) => committed # EmptyStore

(***************************************************************************)
(* C3 as amended.  The committed content is at every moment either the     *)
(* empty store or the complete rebuild of the files the last committed     *)
(* rebuild read; it is the empty store from the reset's commit to the      *)
(* final commit, and stays so when the rebuild raises.                     *)
(***************************************************************************)
C3_CompleteOrEmpty ==
    /\ committed = EmptyStore \/ (lastBuilt # NoFiles /\ IsRebuildOf(committed, lastBuilt))
    /\ pc # "idle" => committed = EmptyStore
    /\ ended = "raised" => committed = EmptyStore

\* A rebuild of files with accepted records runs, its reset has deleted rows, its rows
\* are pending, and the committed content is empty.
C3_Witness ==
    /\ pc = "folders"
    /\ emptied
    /\ AcceptedKeys(Sources) # {}
    /\ session.captures # <<>>
    /\ committed = EmptyStore

(***************************************************************************)
(* C4.  For every Player row of the committed content,                     *)
(* last_seen_timestamp is the largest timestamp of the player's captures   *)
(* rows: it is one of them and no other is larger.                         *)
(***************************************************************************)
C4_LastSeenIsMax ==
    \A p \in DOMAIN committed.players :
        LET ts == {committed.captures[i].timestamp :
                      i \in {j \in DOMAIN committed.captures :
                                committed.captures[j].player_id = p}}
        IN  /\ committed.players[p] \in ts
            /\ \A t \in ts : committed.players[p] >= t

\* A player with a capture below zero followed by one at zero, whose records come from
\* the legacy file and from a folder.
C4_Witness ==
    \E p \in DOMAIN committed.players :
        /\ \E i, j \in DOMAIN committed.captures :
              /\ i < j
              /\ committed.captures[i].player_id = p
              /\ committed.captures[j].player_id = p
              /\ committed.captures[i].timestamp < 0
              /\ committed.captures[j].timestamp = 0
        /\ committed.players[p] = 0
        /\ \E k \in AcceptedKeys(lastBuilt) :
              k[1] = OldName /\ RowOf(lastBuilt, k).player_id = p
        /\ \E k \in AcceptedKeys(lastBuilt) :
              k[1] # OldName /\ RowOf(lastBuilt, k).player_id = p

(***************************************************************************)
(* C5.  Per-file error absorption: whatever file is missing, unreadable    *)
(* or not of the expected shape, the rebuild does not raise, and what it   *)
(* commits holds every accepted record of the other files and nothing of   *)
(* that file.  A file of another shape makes the loader raise: TLC finds   *)
(* this violated.                                                          *)
(***************************************************************************)
C5_FileErrorsAbsorbed ==
    /\ ended # "raised"
    /\ ended = "committed" => IsRebuildOf(committed, Sources)

(***************************************************************************)
(* C6.  Partition law: the counts of top_species with a limit of at least  *)
(* the number of species, plus the legendary and the mythical totals of    *)
(* summary(), add up to its total; no species row has both flags.          *)
(***************************************************************************)
RECURSIVE SumCounts(_)
SumCounts(rows) == IF rows = <<>> THEN 0 ELSE Head(rows).count + SumCounts(Tail(rows))

C6_PartitionLaw ==
    /\ \A limit \in {n \in SpeciesLimits : n >= Cardinality(DOMAIN committed.species)} :
          \A top \in api_top_species(committed, limit) :
              SumCounts(top) + api_summary(committed).total_legendaries
                  + api_summary(committed).total_mythicals
                  = api_summary(committed).total_captures
    /\ \A sid \in DOMAIN committed.species :
          ~(committed.species[sid].is_legendary /\ committed.species[sid].is_mythical)

\* A capture of each class is committed.
C6_Witness ==
    /\ api_summary(committed).total_captures = 3
    /\ api_summary(committed).total_legendaries = 1
    /\ api_summary(committed).total_mythicals = 1

(***************************************************************************)
(* C7.  The routes that name players: the returned list and the rows.      *)
(***************************************************************************)
PlayerRoutes ==
    {"/api/top/captures", "/api/top/shiny", "/api/top/legendaries",
     "/api/top/mythicals", "/api/species"}

PlayerFields == IF resp.route = "/api/species" THEN resp.data.top_players ELSE resp.data

\* The strings of the form of a label: "Player #" and four upper-case hex digits.
HexDigits == {"0","1","2","3","4","5","6","7","8","9","A","B","C","D","E","F"}

LabelForms ==
    {"Player #" \o a \o b \o c \o d :
        a \in HexDigits, b \in HexDigits, c \in HexDigits, d \in HexDigits}

\* Every player field is the label of the player of its row, a player with captures.
C7_LabelsOfCountedPlayers ==
    /\ DOMAIN PlayerFields = DOMAIN resp.rows
    /\ \A i \in DOMAIN PlayerFields :
          /\ PlayerFields[i].player = anonymize_uuid(resp.rows[i][1])
          /\ PlayerFields[i].player \in LabelForms
          /\ \E j \in DOMAIN committed.captures :
                committed.captures[j].player_id = resp.rows[i][1]

C8_NegativeLimitRejected ==
    ("limit" \in DOMAIN resp /\ resp.limit < 0) => resp.status # 200

(***************************************************************************)
(* C9.  Ranking and truncation: a top route called with a limit >= 0       *)
(* returns min(limit, number of groups) entries, one per group key, each   *)
(* with the number of the matching captures rows of its group, in          *)
(* non-increasing order of count, and no group left out has a larger       *)
(* count than one returned.  The groups are counted here from the          *)
(* captures rows and the two species sets.                                 *)
(***************************************************************************)
TopRouteNames ==
    {"/api/top/captures", "/api/top/shiny", "/api/top/legendaries",
     "/api/top/mythicals", "/api/top/species", "/api/top/shiny-species"}

Matches(route, c) ==
    CASE route = "/api/top/captures" -> TRUE
      [] route = "/api/top/shiny" -> c.is_shiny
      [] route = "/api/top/legendaries" -> c.species_id \in LEGENDARIES
      [] route = "/api/top/mythicals" -> c.species_id \in MYTHICALS
      [] route = "/api/top/species" -> c.species_id \notin LEGENDARIES \cup MYTHICALS
      [] route = "/api/top/shiny-species" -> c.is_shiny

GroupColumn(route) ==
    IF route \in {"/api/top/species", "/api/top/shiny-species"}
    THEN "species_id" ELSE "player_id"

C9_RankingAndTruncation ==
    (resp.route \in TopRouteNames /\ resp.limit >= 0) =>
        LET col == GroupColumn(resp.route)
            ids == {i \in DOMAIN committed.captures :
                       Matches(resp.route, committed.captures[i])}
            keys == {committed.captures[i][col] : i \in ids}
            count(k) == Cardinality({i \in ids : committed.captures[i][col] = k})
            rows == resp.rows
        IN  /\ Len(rows) = Min(resp.limit, Cardinality(keys))
            /\ \A i \in DOMAIN rows : rows[i][1] \in keys /\ rows[i][2] = count(rows[i][1])
            /\ \A i, j \in DOMAIN rows : i # j => rows[i][1] # rows[j][1]
            /\ \A i, j \in DOMAIN rows : i < j => rows[i][2] >= rows[j][2]
            /\ \A k \in keys \ {rows[i][1] : i \in DOMAIN rows} :
                  \A i \in DOMAIN rows : count(k) <= rows[i][2]
            /\ DOMAIN resp.data = DOMAIN rows
            /\ \A i \in DOMAIN rows :
                  /\ resp.data[i].count = rows[i][2]
                  /\ IF col = "species_id"
                     THEN resp.data[i].species = rows[i][1]
                     ELSE resp.data[i].player = anonymize_uuid(rows[i][1])

\* The ranking of two players with two captures and one, cut to the first.
C9_Witness ==
    /\ resp.route = "/api/top/captures"
    /\ resp.limit = 1
    /\ Len(resp.rows) = 1
    /\ resp.rows[1][2] = 2
    /\ Cardinality(DOMAIN committed.players) = 2

(***************************************************************************)
(* C10.  With one rebuild at a time, the committed content only ever       *)
(* changes to the empty store or to the complete rebuild of the files, so  *)
(* a reader sees the content of before the rebuild, the empty store or     *)
(* the complete new content; and every captures row committed has its      *)
(* players row and its species row.                                        *)
(***************************************************************************)
ReferencesHold(db) ==
    \A i \in DOMAIN db.captures :
        /\ db.captures[i].player_id \in DOMAIN db.players
        /\ db.captures[i].species_id \in DOMAIN db.species

C10_OldEmptyOrNew ==
    [][/\ \/ committed' = committed
          \/ committed' = EmptyStore
          \/ IsRebuildOf(committed', [oldFile |-> oldFile', folders |-> folders'])
       /\ ReferencesHold(committed')]_vars

\* The summary route answers with zeros while the rows of a rebuild are pending and
\* the rows of the rebuild before are deleted.
C10_Witness ==
    /\ resp.route = "/api/summary"
    /\ resp.data.total_captures = 0
    /\ pc = "folders"
    /\ emptied
    /\ Len(session.captures) >= 2
====
